---- MODULE Spec2Model ----
(***************************************************************************)
(* A model of the blog's application shell and theme configuration.        *)
(*                                                                         *)
(*   src/pages/_app.js      the application shell: installs Prism in a     *)
(*                          global namespace, requires five grammar        *)
(*                          components, exports the root component Nextra  *)
(*   src/unnamed/part_002   a variant of the same shell that requires      *)
(*                          three grammar components                       *)
(*   src/unnamed/part_000   the theme configuration (SiteConfig)           *)
(*   src/pages/rust/index.md, src/unnamed/part_001   the content pages     *)
(*                                                                         *)
(* One process loads one of the two shells.  The module top level runs     *)
(* statement by statement (pc, ip); Nextra can be called only once the     *)
(* module has been evaluated.  A grammar component is modelled by its      *)
(* effect on Prism.languages: it defines the entry of its identifier.      *)
(***************************************************************************)
EXTENDS Naturals, Sequences, FiniteSets

\* ------------------------------------------------------------------ bounds
MaxRenders == 2        \* renders (requests) followed in one process
MaxYearsElapsed == 1   \* calendar-year changes followed after process start
MaxLoads == 2          \* evaluations of the shell module followed in SpecReload

\* ------------------------------------------------------------- vocabulary
\* Language identifiers: those the two shells require, and those the fenced
\* code blocks of the content pages declare.
Langs == {"rust", "go", "c", "asm6502", "nasm", "bash", "x86asm"}

\* The list the specification gives for the bootstrap.
SpecList == {"rust", "go", "c", "asm6502", "nasm", "bash"}

Shells == {"pages_app", "variant"}

Pages == {"rust_index", "rust_article"}

PropsValues == {"p1", "p2"}

\* ---------------------------------------------------------------- state
VARIABLES
    shell,       \* which shell module this process loads
    hasGlobal,   \* typeof global !== "undefined"
    hasWindow,   \* window is defined
    slot,        \* the property Prism of each global namespace
    languages,   \* Prism.languages: identifier -> "none" | "bundled" | "component"
    pc,          \* position in the shell's top level
    ip,          \* index of the next require(...) of the shell
    loads,       \* evaluations of the shell module so far
    afterFirst,  \* <<slot, languages>> when the first evaluation completed
    year,        \* calendar years elapsed since process start
    config,      \* the theme configuration's default export, once evaluated
    inflight,    \* renders begun and not finished
    done         \* finished renders

vars == <<shell, hasGlobal, hasWindow, slot, languages, pc, ip, loads,
          afterFirst, year, config, inflight, done>>

envVars == <<shell, hasGlobal, hasWindow>>

\* ------------------------------------------------------- the shell modules
\* Variation: the shell of src/pages/_app.js without its last require.
PagesAppGrammarsWithoutNasm == <<"rust", "go", "c", "asm6502">>

\* Variation: the variant shell without require("prismjs/components/prism-rust").
VariantGrammarsWithoutRust == <<"nasm", "bash">>

\* The require("prismjs/components/prism-<id>") statements, in source order.
PagesAppGrammars == <<"rust", "go", "c", "asm6502", "nasm">>

VariantGrammars == <<"rust", "nasm", "bash">>

Grammars(s) == IF s = "pages_app" THEN PagesAppGrammars ELSE VariantGrammars

GrammarSet(s) == {Grammars(s)[k] : k \in 1..Len(Grammars(s))}

\* Variation: the test of the conditional inverted, window preferred.
SelectGlobalWindowFirst(g, w) ==
    IF w THEN "window" ELSE IF g THEN "global" ELSE "none"

\* (typeof global !== "undefined" ? global : window): the namespace chosen,
\* "none" when evaluating `window` throws a ReferenceError.
SelectGlobal(g, w) == IF g THEN "global" ELSE IF w THEN "window" ELSE "none"

\* The free identifier Prism as a grammar component sees it: a property of
\* whichever global namespace exists.
ResolvePrism(g, w, sl) ==
    IF g /\ sl.global = "Prism" THEN "Prism"
    ELSE IF w /\ sl.window = "Prism" THEN "Prism"
    ELSE "undefined"

\* Variation: a component that drops the entry when it is evaluated again.
RegisterToggling(reg, id) ==
    [reg EXCEPT ![id] = IF reg[id] = "component" THEN "none" ELSE "component"]

\* Variation: a component that assigns Prism.languages = { <id>: ... }.
RegisterReplacingTable(reg, id) ==
    [l \in Langs |-> IF l = id THEN "component" ELSE "none"]

\* Prism.languages.<id> = { ... } : the component defines its entry.
Register(reg, id) == [reg EXCEPT ![id] = "component"]

Registered(reg) == {id \in Langs : reg[id] # "none"}

\* ------------------------------------------------------- the configuration
\* Variation: the configuration with the edit link left enabled.
SiteConfigWithEditLink(y) ==
    [ repository |-> "https://github.com/martinomburajr",
      titleSuffix |-> " duck",
      search |-> TRUE,
      prevLinks |-> TRUE,
      nextLinks |-> TRUE,
      footer |-> TRUE,
      footerEditOnGitHubLink |-> TRUE,
      footerText |-> y ]

\* The default export of the theme configuration, evaluated in year y:
\* footerText holds the value new Date().getFullYear() had then.
SiteConfig(y) ==
    [ repository |-> "https://github.com/martinomburajr",
      titleSuffix |-> " duck",
      search |-> TRUE,
      prevLinks |-> TRUE,
      nextLinks |-> TRUE,
      footer |-> TRUE,
      footerEditOnGitHubLink |-> FALSE,
      footerText |-> y ]

Unset == [unset |-> TRUE]

\* ------------------------------------------------------- the content pages
\* The language identifiers of each page's fenced code blocks, in order.
IndexBlocks == <<"rust", "bash", "nasm", "rust", "bash", "x86asm">>

ArticleBlocks == <<"rust", "bash", "nasm", "nasm", "nasm", "rust", "bash", "nasm">>

Blocks(page) == IF page = "rust_index" THEN IndexBlocks ELSE ArticleBlocks

\* The renderer's treatment of one fenced block: highlighted when the
\* registry holds its identifier, plain text otherwise.
RenderBlock(reg, lang) == IF reg[lang] # "none" THEN "highlighted" ELSE "plain"

\* ------------------------------------------------------ the root component
\* <Component {...pageProps} />
Element(Component, pageProps) ==
    [type |-> Component, props |-> pageProps, children |-> <<>>]

\* Variation: <Component /> without the spread of pageProps.
NextraDroppingProps(Component, pageProps) == Element(Component, "none")

\* src/pages/_app.js: Nextra({ Component, pageProps }) returns
\* <Component {...pageProps} />.
Nextra(Component, pageProps) == Element(Component, pageProps)

\* The variant returns the same element inside a fragment <> ... </>.
NextraVariant(Component, pageProps) ==
    [type |-> "Fragment", props |-> "none",
     children |-> <<Element(Component, pageProps)>>]

\* The page elements an element renders: a fragment renders its children.
PageElements(e) == IF e.type = "Fragment" THEN e.children ELSE <<e>>

\* Variation: the requires hoisted above the assignment to the global slot
\* (what import statements in place of require(...) would do).
InitRequiresFirst ==
    /\ shell \in Shells
    /\ hasGlobal \in BOOLEAN
    /\ hasWindow \in BOOLEAN
    /\ slot = [global |-> "undefined", window |-> "undefined"]
    /\ languages \in [Langs -> {"none", "bundled"}]
    /\ pc = "require"
    /\ ip = 1
    /\ loads = 1
    /\ afterFirst = Unset
    /\ year = 0
    /\ config = Unset
    /\ inflight = {}
    /\ done = {}

\* ------------------------------------------------------------------ Init
Init ==
    /\ shell \in Shells
    /\ hasGlobal \in BOOLEAN
    /\ hasWindow \in BOOLEAN
    /\ slot = [global |-> "undefined", window |-> "undefined"]
    /\ languages \in [Langs -> {"none", "bundled"}]
    /\ pc = "install"
    /\ ip = 1
    /\ loads = 1
    /\ afterFirst = Unset
    /\ year = 0
    /\ config = Unset
    /\ inflight = {}
    /\ done = {}

\* --------------------------------------------------------------- actions
\* (typeof global !== "undefined" ? global : window).Prism = Prism
InstallPrism ==
    /\ pc = "install"
    /\ LET ns == SelectGlobal(hasGlobal, hasWindow) IN
         IF ns = "none"
         THEN /\ pc' = "error"
              /\ UNCHANGED slot
         ELSE /\ slot' = [slot EXCEPT ![ns] = "Prism"]
              /\ pc' = "require"
    /\ ip' = 1
    /\ UNCHANGED <<envVars, languages, loads, afterFirst, year, config,
                   inflight, done>>

\* One require("prismjs/components/prism-<id>"); after the last one the
\* module is evaluated and its export Nextra is available.
RequireGrammar ==
    /\ pc = "require"
    /\ ip <= Len(Grammars(shell))
    /\ IF ResolvePrism(hasGlobal, hasWindow, slot) = "undefined"
       THEN /\ pc' = "error"
            /\ UNCHANGED <<languages, ip, afterFirst>>
       ELSE /\ languages' = Register(languages, Grammars(shell)[ip])
            /\ ip' = ip + 1
            /\ IF ip = Len(Grammars(shell))
               THEN /\ pc' = "ready"
                    /\ afterFirst' = IF loads = 1
                                     THEN <<slot, languages'>>
                                     ELSE afterFirst
               ELSE /\ pc' = "require"
                    /\ UNCHANGED afterFirst
    /\ UNCHANGED <<envVars, slot, loads, year, config, inflight, done>>

\* The theme configuration module is evaluated: its export is built once.
LoadThemeConfig ==
    /\ config = Unset
    /\ config' = SiteConfig(year)
    /\ UNCHANGED <<envVars, slot, languages, pc, ip, loads, afterFirst, year,
                   inflight, done>>

\* The calendar year changes.
Tick ==
    /\ year < MaxYearsElapsed
    /\ year' = year + 1
    /\ UNCHANGED <<envVars, slot, languages, pc, ip, loads, afterFirst,
                   config, inflight, done>>

\* Variation: a root component that registers the grammar of the page's last
\* fenced block when it is called.
StartRenderRegistering ==
    /\ pc = "ready"
    /\ config # Unset
    /\ Cardinality(inflight) + Cardinality(done) < MaxRenders
    /\ \E Component \in Pages, pageProps \in PropsValues :
         /\ inflight' = inflight \cup
              {[ id |-> Cardinality(inflight) + Cardinality(done) + 1,
                 Component |-> Component,
                 pageProps |-> pageProps,
                 element |-> Element(Component, pageProps),
                 seen |-> Registered(languages) ]}
         /\ languages' =
              Register(languages, Blocks(Component)[Len(Blocks(Component))])
    /\ UNCHANGED <<envVars, slot, pc, ip, loads, afterFirst, year,
                   config, done>>

\* The framework calls Nextra with the component the router selected.
StartRender ==
    /\ pc = "ready"
    /\ config # Unset
    /\ Cardinality(inflight) + Cardinality(done) < MaxRenders
    /\ \E Component \in Pages, pageProps \in PropsValues :
         inflight' = inflight \cup
            {[ id |-> Cardinality(inflight) + Cardinality(done) + 1,
               Component |-> Component,
               pageProps |-> pageProps,
               element |-> IF shell = "pages_app"
                           THEN Nextra(Component, pageProps)
                           ELSE NextraVariant(Component, pageProps),
               seen |-> Registered(languages) ]}
    /\ UNCHANGED <<envVars, slot, languages, pc, ip, loads, afterFirst, year,
                   config, done>>

\* Variation: a render that rewrites the footer's year in the configuration.
FinishRenderRefreshingFooter ==
    /\ \E r \in inflight :
         /\ inflight' = inflight \ {r}
         /\ done' = done \cup
              {[ id |-> r.id,
                 Component |-> r.Component,
                 pageProps |-> r.pageProps,
                 element |-> r.element,
                 seen |-> r.seen,
                 page |-> PageElements(r.element)[1].type,
                 blocks |-> LET body == Blocks(PageElements(r.element)[1].type)
                            IN [k \in 1..Len(body) |->
                                  RenderBlock(languages, body[k])],
                 footerYear |-> year,
                 yearAtRender |-> year ]}
    /\ config' = [config EXCEPT !.footerText = year]
    /\ UNCHANGED <<envVars, slot, languages, pc, ip, loads, afterFirst, year>>

\* The element Nextra returned is rendered: the page's fenced blocks and
\* the footer of the configuration.
FinishRender ==
    /\ \E r \in inflight :
         /\ PageElements(r.element) # <<>>
         /\ inflight' = inflight \ {r}
         /\ done' = done \cup
              {[ id |-> r.id,
                 Component |-> r.Component,
                 pageProps |-> r.pageProps,
                 element |-> r.element,
                 seen |-> r.seen,
                 page |-> PageElements(r.element)[1].type,
                 blocks |-> LET body == Blocks(PageElements(r.element)[1].type)
                            IN [k \in 1..Len(body) |->
                                  RenderBlock(languages, body[k])],
                 footerYear |-> config.footerText,
                 yearAtRender |-> year ]}
    /\ UNCHANGED <<envVars, slot, languages, pc, ip, loads, afterFirst, year,
                   config>>

\* The shell module is evaluated again.  Within one process a module is
\* evaluated once, so this step belongs to SpecReload only.
Reload ==
    /\ pc = "ready"
    /\ loads < MaxLoads
    /\ loads' = loads + 1
    /\ pc' = "install"
    /\ ip' = 1
    /\ UNCHANGED <<envVars, slot, languages, afterFirst, year, config,
                   inflight, done>>

Next ==
    \/ InstallPrism
    \/ RequireGrammar
    \/ LoadThemeConfig
    \/ Tick
    \/ StartRender
    \/ FinishRender

Spec == Init /\ [][Next]_vars

\* The bootstrap alone, run again and again: the shell module's top level,
\* re-evaluated up to MaxLoads times.
NextReload ==
    \/ InstallPrism
    \/ RequireGrammar
    \/ Reload

SpecReload == Init /\ [][NextReload]_vars

\* ------------------------------------------------------------ the claims
Renders == inflight \cup done

\* The language a finished render's k-th fenced block declares.
BlockLang(r, k) == Blocks(r.Component)[k]

\* C1, as stated: once the bootstrap has run, the registry holds an entry for
\* every identifier of {rust, go, c, asm6502, nasm, bash}, whichever shell
\* module the process loaded.
C1_AllSixRegistered ==
    pc = "ready" => SpecList \subseteq Registered(languages)

\* C1, amended: once the bootstrap has run, the registry holds an entry for
\* every identifier the loaded shell requires: rust, go, c, asm6502 and nasm
\* for src/pages/_app.js; rust, nasm and bash for the variant.
C1_OwnListRegistered ==
    pc = "ready" =>
        /\ shell = "pages_app" =>
             \A id \in {"rust", "go", "c", "asm6502", "nasm"} :
                languages[id] = "component"
        /\ shell = "variant" =>
             \A id \in {"rust", "nasm", "bash"} : languages[id] = "component"

C1_Witness ==
    /\ pc = "ready"
    /\ shell = "pages_app"
    /\ languages["nasm"] = "component"
    /\ languages["bash"] = "none"

\* C2: the bootstrap is idempotent: whatever the starting registry, when the
\* shell module has been evaluated a second (third, ...) time the global
\* slots and the registry are exactly what they were after the first
\* evaluation.
C2_BootstrapIdempotent ==
    (pc = "ready" /\ loads >= 2) => <<slot, languages>> = afterFirst

C2_Witness ==
    /\ pc = "ready"
    /\ loads = 2
    /\ \E id \in Langs : languages[id] = "bundled"
    /\ \E id \in Langs : languages[id] = "none"

\* C3, as stated: every fenced block of a rendered page is highlighted when
\* its language is one of {rust, go, c, asm6502, nasm, bash} and plain text
\* otherwise.
C3_HighlightedIffInSpecList ==
    \A r \in done : \A k \in DOMAIN r.blocks :
        r.blocks[k] = IF BlockLang(r, k) \in SpecList
                      THEN "highlighted" ELSE "plain"

\* C3, amended: every fenced block of a rendered page comes out highlighted
\* or plain, never in an error state; it is highlighted when its language is
\* one the loaded shell requires (rust, go, c, asm6502, nasm for
\* src/pages/_app.js; rust, nasm, bash for the variant), and plain when the
\* registry holds no entry for its language at render time.
C3_HighlightedIfRegistered ==
    \A r \in done : \A k \in DOMAIN r.blocks :
        /\ r.blocks[k] \in {"highlighted", "plain"}
        /\ (shell = "pages_app"
              /\ BlockLang(r, k) \in {"rust", "go", "c", "asm6502", "nasm"})
             => r.blocks[k] = "highlighted"
        /\ (shell = "variant" /\ BlockLang(r, k) \in {"rust", "nasm", "bash"})
             => r.blocks[k] = "highlighted"
        /\ BlockLang(r, k) \notin r.seen => r.blocks[k] = "plain"

C3_Witness ==
    \E r \in done :
        /\ shell = "pages_app"
        /\ r.Component = "rust_index"
        /\ r.blocks[1] = "highlighted"
        /\ r.blocks[2] = "plain"
        /\ r.blocks[6] = "highlighted"

\* C4: once the install statement has run, Prism is in exactly one of the two
\* namespaces: in global whenever global is defined, otherwise in window;
\* when exactly one of the two is defined the bootstrap never ends in an
\* error, can always take its next step until it is complete, and Prism is
\* reachable through the namespace that exists.
C4_OneNamespaceByEnvironment ==
    /\ pc \in {"require", "ready"} =>
         /\ hasGlobal => (slot.global = "Prism" /\ slot.window = "undefined")
         /\ ~hasGlobal => (slot.window = "Prism" /\ slot.global = "undefined")
    /\ (hasGlobal # hasWindow) =>
         /\ pc # "error"
         /\ pc \in {"install", "require"} => ENABLED (InstallPrism \/ RequireGrammar)
         /\ pc = "ready" =>
              /\ ResolvePrism(hasGlobal, hasWindow, slot) = "Prism"
              /\ hasGlobal => slot.global = "Prism"
              /\ hasWindow => slot.window = "Prism"

C4_Witness ==
    /\ pc = "ready"
    /\ ~hasGlobal
    /\ hasWindow
    /\ slot.window = "Prism"

\* C5: the registry is written only by the bootstrap, before any render has
\* begun; a render begins only when the bootstrap is complete, and what it
\* sees of the registry is the complete registry: every grammar the shell
\* requires is there, and it is what the registry still holds afterwards.
C5_WrittenOnlyBeforeRenders ==
    /\ [][languages' # languages => (pc = "require" /\ Renders = {})]_vars
    /\ [](\A r \in Renders :
            /\ pc = "ready"
            /\ GrammarSet(shell) \subseteq r.seen
            /\ r.seen = Registered(languages))

C5_Witness ==
    /\ Cardinality(inflight) = 2
    /\ \E id \in Langs : languages[id] = "component"

\* C6: the registry only grows: an identifier that has an entry keeps an
\* entry at every later step, bootstrap or render.
C6_RegistryOnlyGrows ==
    [][\A id \in Langs : languages[id] # "none" => languages'[id] # "none"]_vars

C6_Witness ==
    /\ pc = "ready"
    /\ done # {}
    /\ inflight # {}
    /\ \E id \in Langs : languages[id] = "bundled"
    /\ \E id \in Langs : languages[id] = "component"

\* C7: the year in the footer of every render is the calendar year at the
\* moment of that render.
C7_FooterYearIsCurrent ==
    \A r \in done : r.footerYear = r.yearAtRender

\* C8: the configuration is built once and never changes afterwards: no step
\* changes a field once it is set, and every render read the footer the
\* configuration still holds.
C8_ConfigReadOnly ==
    /\ [][config # Unset => config' = config]_vars
    /\ [](\A r \in done : r.footerYear = config.footerText)

C8_Witness ==
    /\ config # Unset
    /\ Cardinality(done) = 2
    /\ year > config.footerText
    /\ pc = "ready"

\* C9: the configuration enables search, previous-page links, next-page
\* links and the footer, and disables the edit-on-GitHub footer link although
\* a repository URL is set.
C9_FeatureToggles ==
    config # Unset =>
        /\ config.search = TRUE
        /\ config.prevLinks = TRUE
        /\ config.nextLinks = TRUE
        /\ config.footer = TRUE
        /\ config.footerEditOnGitHubLink = FALSE
        /\ config.repository # ""

C9_Witness ==
    /\ config # Unset
    /\ config.footerText = 1
    /\ done # {}

\* C10: every render is delegated to exactly the component the router
\* selected, with the page props it was given, and a render step changes
\* neither the global slots nor the registry.
C10_DelegatesUnchanged ==
    /\ [](\A r \in Renders :
            PageElements(r.element) =
                <<[type |-> r.Component, props |-> r.pageProps,
                   children |-> <<>>]>>)
    /\ [](\A r \in done : r.page = r.Component)
    /\ [][(inflight' # inflight \/ done' # done) =>
            (slot' = slot /\ languages' = languages)]_vars

C10_Witness ==
    /\ \E r \in done : r.Component = "rust_article" /\ r.pageProps = "p2"
    /\ \E r \in done : r.Component = "rust_index" /\ r.pageProps = "p1"
\* C11: within the bootstrap, Prism is placed in the global slot before the
\* first grammar is registered: whenever the top level stands at a require
\* or has completed, Prism is in the namespace the components read, and no
\* step that runs a require (registers a grammar, or fails in one) starts
\* from a state whose slot is empty.
C11_InstalledBeforeFirstRequire ==
    /\ [](pc \in {"require", "ready"} =>
            ResolvePrism(hasGlobal, hasWindow, slot) = "Prism")
    /\ [][(pc = "require" /\ (ip' # ip \/ languages' # languages \/ pc' = "error"))
            => (slot.global = "Prism" \/ slot.window = "Prism")]_vars

C11_Witness ==
    /\ pc = "require"
    /\ ip = 2
    /\ languages["rust"] = "component"
    /\ ResolvePrism(hasGlobal, hasWindow, slot) = "Prism"

\* C12: every language identifier a fenced block of the content pages
\* declares has an entry in the registry once the bootstrap of
\* src/pages/_app.js has run, and no block of a page rendered under that
\* shell falls back to plain text.
C12_EveryDeclaredLanguageRegistered ==
    shell = "pages_app" =>
        /\ pc = "ready" =>
             \A p \in Pages : \A k \in 1..Len(Blocks(p)) :
                Blocks(p)[k] \in Registered(languages)
        /\ \A r \in done : \A k \in DOMAIN r.blocks :
                r.blocks[k] = "highlighted"
====
